---- MODULE Spec2Model ----
(***************************************************************************)
(* FeedJournal: the AudioRecorder component (src/types.ts), the            *)
(* transcription call and the App component (src/unnamed/part_000).        *)
(*                                                                         *)
(* One AudioRecorder instance is one capture session.  A session is        *)
(* mounted while App.isRecordingMode is true; its asynchronous callbacks   *)
(* (the getUserMedia continuation, ondataavailable, onstop) and the        *)
(* handleAudioComplete invocation it starts keep running after unmount.    *)
(* React state updates and the re-render they cause are taken as part of   *)
(* the handler that makes them.                                            *)
(***************************************************************************)
EXTENDS Integers, Sequences, FiniteSets, TLC

\* ---------------------------------------------------------------- bounds
MaxSessions == 2      \* AudioRecorder instances mounted during one run
MaxChunks == 2        \* dataavailable events delivered to one recorder
MaxIds == 2           \* uuidv4() results drawn during one run
MaxTime == 1          \* largest value Date.now() returns

Sessions == 1..MaxSessions
\* e.data of a dataavailable event: a blob's bytes, possibly none
ChunkData == {<<>>, <<1>>, <<2>>}

\* ------------------------------------------------------------ data model
\* types.ts JournalEntry; audioBlob is optional: <<>> or <<blob>>
TextEntry(i, c, t) ==
  [id |-> i, type |-> "text", content |-> c, audioBlob |-> <<>>, timestamp |-> t]

\* AudioEntry with the blob left out of the entry
AudioEntry_NoBlob(i, c, b, t) ==
  [id |-> i, type |-> "audio", content |-> c, audioBlob |-> <<>>, timestamp |-> t]

AudioEntry(i, c, b, t) ==
  [id |-> i, type |-> "audio", content |-> c, audioBlob |-> <<b>>, timestamp |-> t]

\* the ordered preference list of startRecording
mimeTypes ==
  <<"audio/webm;codecs=opus", "audio/webm", "audio/mp4", "audio/aac", "audio/ogg">>

MimeTypeSet == {mimeTypes[i] : i \in 1..Len(mimeTypes)}

\* The capture device: the encodings MediaRecorder.isTypeSupported accepts,
\* the encoding the recorder uses when none is asked for, and whether the
\* recorder's mimeType attribute is already populated after construction
\* (it is the constructor option, hence "" without one, until start()).
DeviceProfiles ==
  { [supported |-> MimeTypeSet, default |-> "audio/webm;codecs=opus", reports |-> TRUE],
    [supported |-> {"audio/mp4", "audio/aac"}, default |-> "audio/mp4", reports |-> FALSE],
    [supported |-> {}, default |-> "audio/wav", reports |-> FALSE],
    [supported |-> {}, default |-> "audio/wav", reports |-> TRUE] }

VARIABLES
  device,             \* the capture device of this browser
  apiKey,             \* process.env.API_KEY is set
  entries,            \* App.entries
  inputText,          \* App.inputText
  isRecordingMode,    \* App.isRecordingMode
  isProcessingAudio,  \* App.isProcessingAudio
  isLoading,          \* App.isLoading
  sess,               \* the AudioRecorder instances, by session
  hac,                \* the handleAudioComplete invocation of each session
  store,              \* the persisted entries, in insertion order
  load,               \* loadEntries: its position and the data it read
  textPending,        \* entries of handleTextSubmit awaiting saveEntry
  deletePending,      \* ids of handleDelete awaiting deleteEntry
  nextId,             \* number of uuidv4() results drawn
  now,                \* the last value Date.now() returned
  view                \* groupedEntries and orderedKeys of the last render

vars ==
  <<device, apiKey, entries, inputText, isRecordingMode, isProcessingAudio,
    isLoading, sess, hac, store, load, textPending, deletePending, nextId, now,
    view>>

appVars == <<entries, inputText, isLoading, store, load, textPending, deletePending>>


\* ------------------------------------------------------- pure functions
\* JavaScript a || b on strings: the first operand unless it is empty
Or(a, b) == IF a # "" THEN a ELSE b

\* new Blob(parts): the bytes of the parts, in order
RECURSIVE BlobData(_)
BlobData(parts) ==
  IF parts = <<>> THEN <<>> ELSE Head(parts) \o BlobData(Tail(parts))

\* SelectFrom without the break: the last supported type wins
RECURSIVE SelectFrom_NoBreak(_, _)
SelectFrom_NoBreak(i, supported) ==
  IF i > Len(mimeTypes) THEN ""
  ELSE Or(SelectFrom_NoBreak(i + 1, supported),
          IF mimeTypes[i] \in supported THEN mimeTypes[i] ELSE "")

\* the for loop of startRecording over mimeTypes, from index i on
RECURSIVE SelectFrom(_, _)
SelectFrom(i, supported) ==
  IF i > Len(mimeTypes) THEN ""
  ELSE IF mimeTypes[i] \in supported THEN mimeTypes[i]
  ELSE SelectFrom(i + 1, supported)

selectedMimeType(dev) == SelectFrom(1, dev.supported)

\* the encoding the recorder produces: the one asked for, else its default
ActualEncoding(dev) == Or(selectedMimeType(dev), dev.default)

\* mediaRecorderRef.current.mimeType right after construction
RecorderMimeType(dev) ==
  IF dev.reports THEN ActualEncoding(dev) ELSE selectedMimeType(dev)

\* mimeTypeRef.current as startRecording sets it
NegotiatedRef(dev) == Or(Or(RecorderMimeType(dev), selectedMimeType(dev)), "")

\* String.prototype.trim on a sequence of characters
RECURSIVE TrimLeft(_)
TrimLeft(t) ==
  IF t # <<>> /\ Head(t) = " " THEN TrimLeft(Tail(t)) ELSE t

RECURSIVE TrimRight(_)
TrimRight(t) ==
  IF t # <<>> /\ t[Len(t)] = " " THEN TrimRight(SubSeq(t, 1, Len(t) - 1)) ELSE t

Trim(t) == TrimRight(TrimLeft(t))

\* ------------------------------------------------------- AudioRecorder
\* A component instance before it is mounted.  sid, acquired, options,
\* delivered, trackStops, timerClears, stopCalls, emitted, term, cancelledIn
\* and stopPressed record the session's identity and history (options is the
\* mimeType the MediaRecorder was constructed with, "" for none); the other
\* fields are the component's refs and state and the objects they point to.
NewSession(s) ==
  [sid |-> s, acquired |-> FALSE, options |-> "",
   pc |-> "idle", mounted |-> FALSE, streamLive |-> FALSE, recRef |-> FALSE,
   recState |-> "inactive", stopQueued |-> FALSE, timerRef |-> FALSE,
   timerRunning |-> FALSE, isRecording |-> FALSE, mimeTypeRef |-> "",
   chunks |-> <<>>, delivered |-> <<>>, trackStops |-> 0, timerClears |-> 0,
   stopCalls |-> 0, emitted |-> <<>>, term |-> "none", cancelledIn |-> "none",
   stopPressed |-> FALSE]

\* the state of the capture session a component instance is in
Phase(r) ==
  IF r.term # "none" THEN r.term
  ELSE IF r.pc = "idle" THEN "Idle"
  ELSE IF r.pc = "requesting" THEN "Requesting"
  ELSE IF r.recState = "recording" THEN "Recording"
  ELSE "Stopping"

\* stopRecordingCleanup.  Stopping the last live track of the stream of a
\* recording MediaRecorder makes the recorder inactive and queues its
\* dataavailable and stop events.
stopRecordingCleanup(r) ==
  LET r1 == IF r.timerRef
            THEN [r EXCEPT !.timerRunning = FALSE, !.timerClears = @ + 1]
            ELSE r
  IN IF r1.recRef
     THEN [r1 EXCEPT !.streamLive = FALSE, !.trackStops = @ + 1,
                     !.recState = "inactive",
                     !.stopQueued = @ \/ r.recState = "recording"]
     ELSE r1

\* the effect cleanup of the mount effect, run when the instance unmounts
Unmount(r) ==
  [stopRecordingCleanup(r) EXCEPT
     !.mounted = FALSE,
     !.term = IF r.term = "none" THEN "Cancelled" ELSE r.term,
     !.cancelledIn = IF r.term = "none" THEN Phase(r) ELSE r.cancelledIn]

\* setIsRecordingMode(false): the modal is no longer rendered, so the
\* mounted AudioRecorder, if any, unmounts
CloseRecorder(ss) ==
  [s \in Sessions |-> IF ss[s].mounted THEN Unmount(ss[s]) ELSE ss[s]]

\* the catch block of startRecording: onCancel()
Failed(r) ==
  [r EXCEPT !.pc = "failed", !.term = IF r.term = "none" THEN "Failed" ELSE r.term]

\* startRecording after getUserMedia resolved, up to the point it throws
\* or completes
Started(r, dev, outcome) ==
  IF outcome = "throwsBeforeRecorder"
  THEN Failed([r EXCEPT !.streamLive = TRUE, !.acquired = TRUE])
  ELSE IF outcome = "startThrows"
  THEN Failed([r EXCEPT !.streamLive = TRUE, !.acquired = TRUE, !.recRef = TRUE,
                        !.options = selectedMimeType(dev),
                        !.mimeTypeRef = NegotiatedRef(dev), !.chunks = <<>>])
  ELSE [r EXCEPT !.streamLive = TRUE, !.acquired = TRUE, !.recRef = TRUE,
                 !.options = selectedMimeType(dev),
                 !.mimeTypeRef = NegotiatedRef(dev), !.chunks = <<>>,
                 !.recState = "recording", !.isRecording = TRUE,
                 !.timerRef = TRUE, !.timerRunning = TRUE, !.pc = "started"]

StartOutcomes == {"ok", "throwsBeforeRecorder", "startThrows"}


\* the blob the onstop handler builds from chunksRef and mimeTypeRef; of
\* tells the blob objects of different recorders apart
onstopBlob(r) ==
  [data |-> BlobData(r.chunks), type |-> Or(r.mimeTypeRef, "audio/webm"),
   of |-> r.sid]

\* the ondataavailable handler: chunksRef after an event with data d
ondataavailable(chunks, d) ==
  IF Len(d) > 0 THEN Append(chunks, d) ELSE chunks

\* stopRecording without the test of isRecording
stopRecording_NoFlag(r) ==
  IF r.recRef
  THEN [r EXCEPT !.recState = "inactive", !.stopCalls = @ + 1,
                 !.stopQueued = @ \/ r.recState = "recording",
                 !.isRecording = FALSE, !.stopPressed = TRUE]
  ELSE r

\* stopRecording on an instance; stopCalls counts the calls of
\* MediaRecorder.stop()
stopRecording(r) ==
  IF r.recRef /\ r.isRecording
  THEN [r EXCEPT !.recState = "inactive", !.stopCalls = @ + 1,
                 !.stopQueued = @ \/ r.recState = "recording",
                 !.isRecording = FALSE, !.stopPressed = TRUE]
  ELSE r

\* --------------------------------------------------- handleAudioComplete
\* resp is <<>> until generateContent resolved, then <<response>>
NoHac ==
  [pc |-> "none", blob |-> <<>>, requests |-> 0, resp |-> <<>>, entry |-> <<>>,
   cause |-> "none"]

\* transcribeAudioEntry without the check of the credential
transcribeAudioEntry_NoCheck(key) == "encoding"

\* transcribeAudio up to its first await: the position the invocation is
\* left in
transcribeAudioEntry(key) == IF ~key THEN "failed" ELSE "encoding"

\* ResponseText with a placeholder put in for a missing or empty text
ResponseText_Placeholder(resp) ==
  IF resp = <<>> \/ resp[1] = <<>> THEN <<"a">> ELSE resp[1]

\* response.text || "" ; resp is <<>> when the provider yields no text
ResponseText(resp) == IF resp = <<>> THEN <<>> ELSE resp[1]

Responses == {<<>>, << <<>> >>, << <<"a">> >>}

\* ------------------------------------------------------------- storage
\* getAllEntries: createdAt descending, later insert first among equals
RECURSIVE InsertDesc(_, _)
InsertDesc(e, l) ==
  IF l = <<>> THEN <<e>>
  ELSE IF Head(l).timestamp <= e.timestamp THEN <<e>> \o l
  ELSE <<Head(l)>> \o InsertDesc(e, Tail(l))

RECURSIVE getAllEntries(_)
getAllEntries(st) ==
  IF st = <<>> THEN <<>>
  ELSE InsertDesc(st[Len(st)], getAllEntries(SubSeq(st, 1, Len(st) - 1)))

saveEntry(st, e) == Append(st, e)

deleteEntry(st, i) == SelectSeq(st, LAMBDA e : e.id # i)

Ids(l) == {l[k].id : k \in 1..Len(l)}

InitialStores == {<<>>, <<TextEntry(0, <<"a">>, 0)>>}

InputTexts == {<<>>, <<" ">>, <<" ", "a">>}

\* the first render of App: no entries
FirstView == [input |-> <<>>, at |-> 0, grouped |-> <<>>, keys |-> <<>>]

\* ---------------------------------------------------------------- Init
Init ==
  /\ device \in DeviceProfiles
  /\ apiKey \in BOOLEAN
  /\ entries = <<>>
  /\ inputText = <<>>
  /\ isRecordingMode = FALSE
  /\ isProcessingAudio = FALSE
  /\ isLoading = TRUE
  /\ sess = [s \in Sessions |-> NewSession(s)]
  /\ hac = [s \in Sessions |-> NoHac]
  /\ store \in InitialStores
  /\ load = [pc |-> "pending", data |-> <<>>]
  /\ textPending = {}
  /\ deletePending = {}
  /\ nextId = 0
  /\ now = 0
  /\ view = FirstView

\* ------------------------------------------------------ recorder actions
\* the mic button: setIsRecordingMode(true) mounts an AudioRecorder, whose
\* mount effect calls startRecording, which awaits getUserMedia
OpenRecorder(s) ==
  /\ ~isRecordingMode
  /\ Len(inputText) = 0
  /\ sess[s].pc = "idle"
  /\ \A q \in Sessions : q < s => sess[q].pc # "idle"
  /\ isRecordingMode' = TRUE
  /\ sess' = [sess EXCEPT ![s] = [@ EXCEPT !.pc = "requesting", !.mounted = TRUE]]
  /\ UNCHANGED <<device, apiKey, view, isProcessingAudio, hac, nextId, now>>
  /\ UNCHANGED appVars

\* getUserMedia resolves and startRecording runs on; a throw reaches the
\* catch block, which calls onCancel
GetUserMediaResolve(s) ==
  /\ sess[s].pc = "requesting"
  /\ \E outcome \in StartOutcomes :
       LET r == Started(sess[s], device, outcome)
           ss == [sess EXCEPT ![s] = r]
       IN IF outcome = "ok"
          THEN sess' = ss /\ UNCHANGED isRecordingMode
          ELSE sess' = CloseRecorder(ss) /\ isRecordingMode' = FALSE
  /\ UNCHANGED <<device, apiKey, view, isProcessingAudio, hac, nextId, now>>
  /\ UNCHANGED appVars

\* getUserMedia rejects: the catch block calls onCancel
GetUserMediaReject(s) ==
  /\ sess[s].pc = "requesting"
  /\ sess' = CloseRecorder([sess EXCEPT ![s] = Failed(@)])
  /\ isRecordingMode' = FALSE
  /\ UNCHANGED <<device, apiKey, view, isProcessingAudio, hac, nextId, now>>
  /\ UNCHANGED appVars

\* a dataavailable event of the recorder of s
DataAvailable(s) ==
  /\ sess[s].recRef
  /\ sess[s].recState = "recording" \/ sess[s].stopQueued
  /\ Len(sess[s].delivered) < MaxChunks
  /\ \E d \in ChunkData :
       sess' = [sess EXCEPT ![s] =
                  [@ EXCEPT !.chunks = ondataavailable(@, d),
                            !.delivered = Append(@, d)]]
  /\ UNCHANGED <<device, apiKey, view, isRecordingMode, isProcessingAudio, hac, nextId, now>>
  /\ UNCHANGED appVars

\* the "Stop and Save" button, rendered while isProcessing is false
StopButton(s) ==
  /\ sess[s].mounted
  /\ ~isProcessingAudio
  /\ sess' = [sess EXCEPT ![s] = stopRecording(@)]
  /\ UNCHANGED <<device, apiKey, view, isRecordingMode, isProcessingAudio, hac, nextId, now>>
  /\ UNCHANGED appVars

\* the X button of the recorder, disabled while isProcessing
CancelButton ==
  /\ isRecordingMode
  /\ ~isProcessingAudio
  /\ isRecordingMode' = FALSE
  /\ sess' = CloseRecorder(sess)
  /\ UNCHANGED <<device, apiKey, view, isProcessingAudio, hac, nextId, now>>
  /\ UNCHANGED appVars

\* a click on the backdrop of the modal
BackdropClick ==
  /\ isRecordingMode
  /\ IF ~isProcessingAudio
     THEN isRecordingMode' = FALSE /\ sess' = CloseRecorder(sess)
     ELSE UNCHANGED <<isRecordingMode, sess>>
  /\ UNCHANGED <<device, apiKey, view, isProcessingAudio, hac, nextId, now>>
  /\ UNCHANGED appVars


\* entriesAfterSave with the list updated before persistence confirms
entriesAfterSave_Optimistic(ok, e, prev) == <<e>> \o prev

\* the in-memory list after a saveEntry call settled: setEntries runs only
\* on the line after the await
entriesAfterSave(ok, e, prev) == IF ok THEN <<e>> \o prev ELSE prev

\* the in-memory list after a deleteEntry call settled
entriesAfterDelete(ok, i, prev) ==
  IF ok THEN SelectSeq(prev, LAMBDA e : e.id # i) ELSE prev

\* the catch and finally blocks of handleAudioComplete
hacFailed(h, why) == [h EXCEPT !.pc = "failed", !.cause = why]

\* afterFault with the request issued a second time before giving up
afterFault_Retry(h) ==
  IF h.requests < 2 THEN [h EXCEPT !.requests = @ + 1]
  ELSE hacFailed(h, "transcription")

\* transcribeAudio when generateContent rejects: log and rethrow
afterFault(h) == hacFailed(h, "transcription")

\* the recorder's stop event: the onstop handler builds the blob, calls
\* onRecordingComplete (handleAudioComplete, which runs up to its first
\* await inside transcribeAudio) and then stopRecordingCleanup
OnStop(s) ==
  /\ sess[s].stopQueued
  /\ LET blob == onstopBlob(sess[s])
         pc0 == transcribeAudioEntry(apiKey)
     IN /\ hac' = [hac EXCEPT ![s] =
                     IF pc0 = "failed"
                     THEN hacFailed([NoHac EXCEPT !.blob = <<blob>>], "config")
                     ELSE [NoHac EXCEPT !.pc = pc0, !.blob = <<blob>>]]
        /\ isProcessingAudio' = (pc0 # "failed")
        /\ sess' = [sess EXCEPT ![s] =
                      stopRecordingCleanup(
                        [@ EXCEPT !.stopQueued = FALSE,
                                  !.emitted = Append(@, blob),
                                  !.term = IF @ = "none" THEN "Finalized" ELSE @])]
  /\ UNCHANGED <<device, apiKey, view, isRecordingMode, nextId, now>>
  /\ UNCHANGED appVars

\* blobToBase64 settles; on success generateContent is called
EncodeDone(s) ==
  /\ hac[s].pc = "encoding"
  /\ \E ok \in BOOLEAN :
       IF ok
       THEN /\ hac' = [hac EXCEPT ![s] = [@ EXCEPT !.pc = "request", !.requests = @ + 1]]
            /\ UNCHANGED isProcessingAudio
       ELSE /\ hac' = [hac EXCEPT ![s] = hacFailed(@, "encode")]
            /\ isProcessingAudio' = FALSE
  /\ UNCHANGED <<device, apiKey, view, isRecordingMode, sess, nextId, now>>
  /\ UNCHANGED appVars

\* generateContent rejects
RequestFault(s) ==
  /\ hac[s].pc = "request"
  /\ hac' = [hac EXCEPT ![s] = afterFault(@)]
  /\ isProcessingAudio' = (hac'[s].pc # "failed")
  /\ UNCHANGED <<device, apiKey, view, isRecordingMode, sess, nextId, now>>
  /\ UNCHANGED appVars

\* generateContent resolves: the entry is built and saveEntry is called
RequestDone(s) ==
  /\ hac[s].pc = "request"
  /\ nextId < MaxIds
  /\ \E resp \in Responses, t \in now..MaxTime :
       /\ hac' = [hac EXCEPT ![s] =
                    [@ EXCEPT !.pc = "saving",
                              !.resp = <<resp>>,
                              !.entry = <<AudioEntry(nextId + 1, ResponseText(resp),
                                                     hac[s].blob[1], t)>>]]
       /\ now' = t
  /\ nextId' = nextId + 1
  /\ UNCHANGED <<device, apiKey, view, isRecordingMode, isProcessingAudio, sess>>
  /\ UNCHANGED appVars

\* saveEntry of handleAudioComplete settles
AudioSaveDone(s) ==
  /\ hac[s].pc = "saving"
  /\ \E ok \in BOOLEAN :
       LET e == hac[s].entry[1]
       IN /\ store' = IF ok THEN saveEntry(store, e) ELSE store
          /\ entries' = entriesAfterSave(ok, e, entries)
          /\ IF ok
             THEN /\ isRecordingMode' = FALSE
                  /\ sess' = CloseRecorder(sess)
                  /\ hac' = [hac EXCEPT ![s] = [@ EXCEPT !.pc = "done"]]
             ELSE /\ UNCHANGED <<isRecordingMode, sess>>
                  /\ hac' = [hac EXCEPT ![s] = hacFailed(@, "storage")]
  /\ isProcessingAudio' = FALSE
  /\ UNCHANGED <<device, apiKey, view, inputText, isLoading, load, textPending,
                 deletePending, nextId, now>>

\* ------------------------------------------------------------ App actions
\* loadEntries: getAllEntries reads the store
LoadRead ==
  /\ load.pc = "pending"
  /\ load' = [pc |-> "read", data |-> getAllEntries(store)]
  /\ UNCHANGED <<device, apiKey, view, entries, inputText, isRecordingMode,
                 isProcessingAudio, isLoading, sess, hac, store, textPending,
                 deletePending, nextId, now>>

\* loadEntries: getAllEntries settles; it rejects if it could not read
LoadDone ==
  /\ load.pc \in {"pending", "read"}
  /\ IF load.pc = "read" THEN entries' = load.data ELSE UNCHANGED entries
  /\ load' = [pc |-> IF load.pc = "read" THEN "done" ELSE "failed", data |-> <<>>]
  /\ isLoading' = FALSE
  /\ UNCHANGED <<device, apiKey, view, inputText, isRecordingMode, isProcessingAudio,
                 sess, hac, store, textPending, deletePending, nextId, now>>

\* onChange of the text input; the backdrop of the modal covers the
\* compose bar and the entry cards while the recorder is open
TypeInput ==
  /\ ~isRecordingMode
  /\ \E t \in InputTexts : t # inputText /\ inputText' = t
  /\ UNCHANGED <<device, apiKey, view, entries, isRecordingMode, isProcessingAudio,
                 isLoading, sess, hac, store, load, textPending, deletePending,
                 nextId, now>>

\* handleTextSubmit up to its await
HandleTextSubmit ==
  /\ ~isRecordingMode
  /\ Trim(inputText) # <<>>
  /\ nextId < MaxIds
  /\ \E t \in now..MaxTime :
       /\ textPending' = textPending \cup {TextEntry(nextId + 1, Trim(inputText), t)}
       /\ now' = t
  /\ nextId' = nextId + 1
  /\ UNCHANGED <<device, apiKey, view, entries, inputText, isRecordingMode,
                 isProcessingAudio, isLoading, sess, hac, store, load, deletePending>>

\* saveEntry of handleTextSubmit settles
TextSaveDone ==
  /\ \E e \in textPending, ok \in BOOLEAN :
       /\ textPending' = textPending \ {e}
       /\ store' = IF ok THEN saveEntry(store, e) ELSE store
       /\ entries' = entriesAfterSave(ok, e, entries)
       /\ inputText' = IF ok THEN <<>> ELSE inputText
  /\ UNCHANGED <<device, apiKey, view, isRecordingMode, isProcessingAudio, isLoading,
                 sess, hac, load, deletePending, nextId, now>>

\* handleDelete up to its await, for a rendered entry, once confirmed
HandleDelete ==
  /\ ~isLoading
  /\ ~isRecordingMode
  /\ \E i \in Ids(entries) : deletePending' = deletePending \cup {i}
  /\ UNCHANGED <<device, apiKey, view, entries, inputText, isRecordingMode,
                 isProcessingAudio, isLoading, sess, hac, store, load,
                 textPending, nextId, now>>

\* deleteEntry settles; it fails for an id that is not stored
DeleteDone ==
  /\ \E i \in deletePending, ok \in BOOLEAN :
       /\ ok => i \in Ids(store)
       /\ deletePending' = deletePending \ {i}
       /\ store' = IF ok THEN deleteEntry(store, i) ELSE store
       /\ entries' = entriesAfterDelete(ok, i, entries)
  /\ UNCHANGED <<device, apiKey, view, inputText, isRecordingMode, isProcessingAudio,
                 isLoading, sess, hac, load, textPending, nextId, now>>

\* ------------------------------------------------ grouping by date
\* In the specifications of this section the clock and the timestamps
\* count half days of local time since 1970-01-01: an even value is the
\* midnight that begins a day, the odd value after it is its noon.

\* the local calendar date of a Date: weekday (0 = Sunday), month, day
\* of the month and year, the four fields Date.toDateString() prints
toDateString(ts) ==
  LET days  == ts \div 2
      z     == days + 719468
      era   == z \div 146097
      doe   == z - era * 146097
      yoe   == (doe - doe \div 1460 + doe \div 36524 - doe \div 146096) \div 365
      doy   == doe - (365 * yoe + yoe \div 4 - yoe \div 100)
      mp    == (5 * doy + 2) \div 153
      month == IF mp < 10 THEN mp + 3 ELSE mp - 9
  IN  [weekday |-> (days + 4) % 7,
       month   |-> month,
       day     |-> doy - (153 * mp + 2) \div 5 + 1,
       year    |-> yoe + era * 400 + (IF month <= 2 THEN 1 ELSE 0)]

\* toLocaleDateString(undefined, {weekday, month, day}): the options
\* name no year, so the string carries none
toLocaleDateString(ts) ==
  LET d == toDateString(ts)
  IN  [label |-> "date", weekday |-> d.weekday, month |-> d.month, day |-> d.day]

TodayKey == [label |-> "Today", weekday |-> 0, month |-> 0, day |-> 0]

YesterdayKey == [label |-> "Yesterday", weekday |-> 0, month |-> 0, day |-> 0]

\* yesterday.setDate(yesterday.getDate() - 1): one calendar day earlier
setDateBack(t) == t - 2

\* the key of one entry, given the two clock readings of its iteration
dateKey(ts, today, yesterday) ==
  IF toDateString(ts) = toDateString(today) THEN TodayKey
  ELSE IF toDateString(ts) = toDateString(setDateBack(yesterday)) THEN YesterdayKey
  ELSE toLocaleDateString(ts)

\* A render reads the clock four times per entry: `today` and
\* `yesterday` in groupEntriesByDate, then again in orderedKeys.  The
\* clock shows c.t0 up to reading c.k - 1 and c.t1 from reading c.k on.
ClockRead(c, i) == IF i < c.k THEN c.t0 ELSE c.t1

\* the key of entry j (1-based) of es in pass 0 (groupEntriesByDate) or
\* pass 1 (orderedKeys)
KeyInPass(es, j, c, pass) ==
  LET first == pass * 2 * Len(es) + 2 * j - 1
  IN  dateKey(es[j].timestamp, ClockRead(c, first), ClockRead(c, first + 1))

\* if (!groups[key]) groups[key] = []; groups[key].push(entry)
PushToGroup(groups, key, e) ==
  IF \E g \in 1..Len(groups) : groups[g].key = key
  THEN [g \in 1..Len(groups) |->
          IF groups[g].key = key
          THEN [groups[g] EXCEPT !.entries = Append(@, e)]
          ELSE groups[g]]
  ELSE Append(groups, [key |-> key, entries |-> <<e>>])

RECURSIVE GroupUpTo(_, _, _)
GroupUpTo(es, j, c) ==
  IF j = 0 THEN <<>>
  ELSE PushToGroup(GroupUpTo(es, j - 1, c), KeyInPass(es, j, c, 0), es[j])

\* the object groupEntriesByDate returns, as its properties in insertion order
groupEntriesByDate(es, c) == GroupUpTo(es, Len(es), c)

RECURSIVE KeysUpTo(_, _, _)
KeysUpTo(es, j, c) ==
  IF j = 0 THEN <<>>
  ELSE LET ks == KeysUpTo(es, j - 1, c)
           k  == KeyInPass(es, j, c, 1)
       IN  IF \E i \in 1..Len(ks) : ks[i] = k THEN ks ELSE Append(ks, k)

\* Array.from(new Set(entries.map(...))): the keys in first-insertion order
orderedKeys(es, c) == KeysUpTo(es, Len(es), c)

\* groupedEntries[dateKey]; <<>> stands for undefined (no group is empty)
GroupOf(grouped, key) ==
  IF \E g \in 1..Len(grouped) : grouped[g].key = key
  THEN grouped[CHOOSE g \in 1..Len(grouped) : grouped[g].key = key].entries
  ELSE <<>>

RenderWith(c) ==
  [input   |-> entries,
   at      |-> c.t0,
   grouped |-> groupEntriesByDate(entries, c),
   keys    |-> orderedKeys(entries, c)]

\* noon of Friday 2026-11-06, where the clock of the grouping
\* specifications starts
ClockStart == 2 * 20763 + 1

\* the midnight that ends that day
ClockEnd == ClockStart + 1

\* time passes
ClockTick ==
  /\ now < ClockEnd
  /\ now' = now + 1
  /\ UNCHANGED <<device, apiKey, view, entries, inputText, isRecordingMode,
                 isProcessingAudio, isLoading, sess, hac, store, load,
                 textPending, deletePending, nextId>>

\* App renders and the clock shows one value throughout
Render ==
  /\ view' = RenderWith([t0 |-> now, k |-> 1, t1 |-> now])
  /\ view' # view
  /\ UNCHANGED <<device, apiKey, entries, inputText, isRecordingMode,
                 isProcessingAudio, isLoading, sess, hac, store, load,
                 textPending, deletePending, nextId, now>>

\* App renders while the clock advances: reading k is the first to
\* show the later time
RenderAcrossTick ==
  /\ entries # <<>>
  /\ now < ClockEnd
  /\ \E k \in 2..(4 * Len(entries)) :
       view' = RenderWith([t0 |-> now, k |-> k, t1 |-> now + 1])
  /\ now' = now + 1
  /\ UNCHANGED <<device, apiKey, entries, inputText, isRecordingMode,
                 isProcessingAudio, isLoading, sess, hac, store, load,
                 textPending, deletePending, nextId>>

Next ==
  \/ \E s \in Sessions : OpenRecorder(s)
  \/ \E s \in Sessions : GetUserMediaResolve(s)
  \/ \E s \in Sessions : GetUserMediaReject(s)
  \/ \E s \in Sessions : DataAvailable(s)
  \/ \E s \in Sessions : StopButton(s)
  \/ CancelButton
  \/ BackdropClick
  \/ \E s \in Sessions : OnStop(s)
  \/ \E s \in Sessions : EncodeDone(s)
  \/ \E s \in Sessions : RequestFault(s)
  \/ \E s \in Sessions : RequestDone(s)
  \/ \E s \in Sessions : AudioSaveDone(s)
  \/ ClockTick
  \/ Render
  \/ RenderAcrossTick
  \/ LoadRead
  \/ LoadDone
  \/ TypeInput
  \/ HandleTextSubmit
  \/ TextSaveDone
  \/ HandleDelete
  \/ DeleteDone

Spec == Init /\ [][Next]_vars


\* The recorder and the audio pipeline alone: nothing is typed, deleted or
\* loaded while the sessions run.
InitRec == Init /\ store = <<>>

NextRec ==
  \/ \E s \in Sessions : OpenRecorder(s)
  \/ \E s \in Sessions : GetUserMediaResolve(s)
  \/ \E s \in Sessions : GetUserMediaReject(s)
  \/ \E s \in Sessions : DataAvailable(s)
  \/ \E s \in Sessions : StopButton(s)
  \/ CancelButton
  \/ BackdropClick
  \/ \E s \in Sessions : OnStop(s)
  \/ \E s \in Sessions : EncodeDone(s)
  \/ \E s \in Sessions : RequestFault(s)
  \/ \E s \in Sessions : RequestDone(s)
  \/ \E s \in Sessions : AudioSaveDone(s)

\* two sessions on the device that supports every listed encoding
InitTwo == InitRec /\ device.supported = MimeTypeSet

SpecRec == InitTwo /\ [][NextRec]_vars


\* One recording session, with nothing typed, deleted or loaded meanwhile.
Solo == {1}

NextSolo ==
  \/ \E s \in Solo : OpenRecorder(s)
  \/ \E s \in Solo : GetUserMediaResolve(s)
  \/ \E s \in Solo : GetUserMediaReject(s)
  \/ \E s \in Solo : DataAvailable(s)
  \/ \E s \in Solo : StopButton(s)
  \/ CancelButton
  \/ BackdropClick
  \/ \E s \in Solo : OnStop(s)
  \/ \E s \in Solo : EncodeDone(s)
  \/ \E s \in Solo : RequestFault(s)
  \/ \E s \in Solo : RequestDone(s)
  \/ \E s \in Solo : AudioSaveDone(s)

SpecSolo == InitRec /\ [][NextSolo]_vars

\* The App with one recording session on one device; the recorder's data
\* events, which no App handler looks at, are left out.
InitApp ==
  /\ Init
  /\ apiKey
  /\ device = [supported |-> MimeTypeSet, default |-> "audio/webm;codecs=opus",
               reports |-> TRUE]

NextApp ==
  \/ \E s \in Solo : OpenRecorder(s)
  \/ \E s \in Solo : GetUserMediaResolve(s)
  \/ \E s \in Solo : GetUserMediaReject(s)
  \/ \E s \in Solo : StopButton(s)
  \/ CancelButton
  \/ BackdropClick
  \/ \E s \in Solo : OnStop(s)
  \/ \E s \in Solo : EncodeDone(s)
  \/ \E s \in Solo : RequestFault(s)
  \/ \E s \in Solo : RequestDone(s)
  \/ \E s \in Solo : AudioSaveDone(s)
  \/ LoadRead
  \/ LoadDone
  \/ TypeInput
  \/ HandleTextSubmit
  \/ TextSaveDone
  \/ HandleDelete
  \/ DeleteDone

SpecApp == InitApp /\ [][NextApp]_vars


\* ============================================================== claims
InList(e, l) == \E k \in 1..Len(l) : l[k] = e

\* l holds an entry whose attachment is the blob of session s
EntryOf(s, l) ==
  \E k \in 1..Len(l) : l[k].audioBlob # <<>> /\ l[k].audioBlob[1].of = s

NonEmptyChunks(delivered) == SelectSeq(delivered, LAMBDA d : Len(d) > 0)

\* the session has ended and none of its callbacks is pending
Settled(r) ==
  r.term # "none" /\ r.pc # "requesting" /\ ~r.stopQueued /\ ~r.mounted

\* the session holds or is about to hold a microphone stream
Active(r) == r.pc = "requesting" \/ r.streamLive

\* C1: a session cancelled while Recording emits no payload, starts no
\* handleAudioComplete, leaves no entry of its audio in the list or the
\* store, ends Cancelled and has its stream released exactly once.
C1_Claim ==
  \A s \in Sessions :
    sess[s].cancelledIn = "Recording" =>
      /\ sess[s].emitted = <<>>
      /\ hac[s].pc = "none"
      /\ ~EntryOf(s, entries)
      /\ ~EntryOf(s, store)
      /\ sess[s].term = "Cancelled"
      /\ sess[s].trackStops = 1

\* C2: once the getUserMedia call of a session cancelled while Requesting
\* has settled, the session has no live stream, no recording MediaRecorder
\* and no running tick timer.
C2_Claim ==
  \A s \in Sessions :
    sess[s].cancelledIn = "Requesting" /\ sess[s].pc # "requesting" =>
      /\ ~sess[s].streamLive
      /\ sess[s].recState # "recording"
      /\ ~sess[s].timerRunning

\* C3: for every session the tracks of its stream are stopped and its
\* timer is cleared never twice, and once the session has ended, exactly
\* once for the stream and the timer it acquired.
C3_Claim ==
  \A s \in Sessions :
    /\ sess[s].trackStops <= 1
    /\ sess[s].timerClears <= 1
    /\ Settled(sess[s]) =>
         /\ sess[s].acquired => sess[s].trackStops = 1
         /\ sess[s].timerRef => sess[s].timerClears = 1

\* C4: a session whose startRecording failed holds no live stream and no
\* running timer, its recorder is closed, and no payload, invocation or
\* entry exists for it.
C4_Claim ==
  \A s \in Sessions :
    sess[s].pc = "failed" =>
      /\ ~sess[s].streamLive
      /\ ~sess[s].timerRunning
      /\ ~sess[s].mounted
      /\ sess[s].emitted = <<>>
      /\ hac[s].pc = "none"
      /\ ~EntryOf(s, entries)

\* C5: at most one session holds or is about to hold a microphone stream.
C5_Claim == Cardinality({s \in Sessions : Active(sess[s])}) <= 1

\* C6: while some handleAudioComplete invocation is inside transcribeAudio,
\* neither the cancel button nor the backdrop can close the recorder.
C6_Claim ==
  (\E s \in Sessions : hac[s].pc \in {"encoding", "request"}) =>
    ~(isRecordingMode /\ ~isProcessingAudio)

\* C7: a session emits at most one payload, and once the stop event of a
\* session stopped with the Stop button has been handled, exactly one, whose
\* bytes are the non-empty chunks delivered, in order, and whose type is the
\* encoding the recorder used.
C7_Claim ==
  \A s \in Sessions :
    /\ Len(sess[s].emitted) <= 1
    /\ sess[s].stopPressed /\ ~sess[s].stopQueued =>
         /\ Len(sess[s].emitted) = 1
         /\ sess[s].emitted[1].data = BlobData(NonEmptyChunks(sess[s].delivered))
         /\ sess[s].emitted[1].type = ActualEncoding(device)

\* C8: when a saveEntry or deleteEntry call of a handler settles, the
\* in-memory list gains the entry at its head only if the entry is now
\* stored, loses the id only if the id is no longer stored, and is left
\* unchanged if the call failed; the list changes in no other step of a
\* handler.
C8_Theorem ==
  [][ /\ \A e \in textPending \ textPending' :
           \/ InList(e, store') /\ entries' = <<e>> \o entries
           \/ store' = store /\ entries' = entries
      /\ \A s \in Sessions :
           hac[s].pc = "saving" /\ hac'[s].pc # "saving" =>
             \/ /\ InList(hac[s].entry[1], store')
                /\ entries' = <<hac[s].entry[1]>> \o entries
             \/ store' = store /\ entries' = entries
      /\ \A i \in deletePending \ deletePending' :
           \/ /\ i \in Ids(store) /\ i \notin Ids(store')
              /\ entries' = SelectSeq(entries, LAMBDA e : e.id # i)
           \/ store' = store /\ entries' = entries
      /\ entries' # entries =>
           \/ textPending' # textPending
           \/ deletePending' # deletePending
           \/ \E s \in Sessions : hac[s].pc = "saving" /\ hac'[s].pc = "done"
           \/ load.pc = "read" /\ load'.pc = "done"
    ]_vars

\* a save of this run failed and left no entry, another one succeeded
C8_Witness ==
  /\ \E s \in Sessions :
       /\ hac[s].cause = "storage"
       /\ ~InList(hac[s].entry[1], entries)
       /\ ~InList(hac[s].entry[1], store)
  /\ \E k \in 1..Len(entries) : entries[k].id > 0 /\ InList(entries[k], store)

\* C9: an invocation whose transcription request failed has issued exactly
\* one request, has built and saved no entry, and no entry of its audio is
\* in the list or the store; no invocation issues more than one request.
C9_Theorem ==
  \A s \in Sessions :
    /\ hac[s].requests <= 1
    /\ hac[s].cause = "transcription" =>
         /\ hac[s].pc = "failed"
         /\ hac[s].requests = 1
         /\ hac[s].entry = <<>>
         /\ ~EntryOf(s, entries)
         /\ ~EntryOf(s, store)

\* the request of a recording that carries data has failed
C9_Witness ==
  \E s \in Sessions :
    /\ hac[s].cause = "transcription"
    /\ hac[s].blob[1].data # <<>>
    /\ ~isProcessingAudio

\* C10: without a credential every transcribeAudio call fails at once: the
\* invocation never reaches the encoding of the audio, issues no request
\* and builds no entry.
C10_Theorem ==
  \A s \in Sessions :
    /\ hac[s].cause = "config" =>
         hac[s].pc = "failed" /\ hac[s].requests = 0 /\ hac[s].entry = <<>>
    /\ ~apiKey /\ hac[s].pc # "none" => hac[s].cause = "config"

\* a recording was handed to transcribeAudio without a credential
C10_Witness ==
  \E s \in Sessions :
    ~apiKey /\ hac[s].cause = "config" /\ sess[s].emitted # <<>>


\* C11: an invocation whose request resolved with no text or an empty text
\* has not failed in the transcription: it built an audio entry with empty
\* content and the recorded blob as attachment, called saveEntry, and once
\* the save succeeded the entry is in the store and in the list.
C11_Theorem ==
  \A s \in Sessions :
    hac[s].resp # <<>> /\ hac[s].resp[1] \in {<<>>, << <<>> >>} =>
      /\ hac[s].pc \in {"saving", "done", "failed"}
      /\ hac[s].cause \in {"none", "storage"}
      /\ hac[s].entry # <<>>
      /\ hac[s].entry[1].type = "audio"
      /\ hac[s].entry[1].content = <<>>
      /\ hac[s].entry[1].audioBlob = hac[s].blob
      /\ hac[s].pc = "done" =>
           InList(hac[s].entry[1], store) /\ InList(hac[s].entry[1], entries)

\* an entry with empty content and a non-empty recording was saved
C11_Witness ==
  \E s \in Sessions :
    /\ hac[s].pc = "done"
    /\ hac[s].resp \in {<< <<>> >>, << << <<>> >> >>}
    /\ hac[s].blob[1].data # <<>>
    /\ entries # <<>> /\ entries[1] = hac[s].entry[1]
    /\ entries[1].content = <<>>


\* the entry carries an attachment exactly if its kind is audio
WellFormed(e) == (e.audioBlob # <<>>) <=> (e.type = "audio")

\* C14: every entry in the in-memory list, in the store, read by
\* loadEntries, awaiting its save in handleTextSubmit or built by
\* handleAudioComplete has an attachment if and only if its kind is audio.
C14_Theorem ==
  /\ \A k \in 1..Len(entries) : WellFormed(entries[k])
  /\ \A k \in 1..Len(store) : WellFormed(store[k])
  /\ \A k \in 1..Len(load.data) : WellFormed(load.data[k])
  /\ \A e \in textPending : WellFormed(e)
  /\ \A s \in Sessions : hac[s].entry # <<>> => WellFormed(hac[s].entry[1])

\* the list holds a text entry and an audio entry saved in this run
C14_Witness ==
  /\ \E k \in 1..Len(entries) :
       entries[k].type = "audio" /\ entries[k].audioBlob # <<>> /\ entries[k].id > 0
  /\ \E k \in 1..Len(entries) :
       entries[k].type = "text" /\ entries[k].audioBlob = <<>> /\ entries[k].id > 0


\* Every device: any subset of the listed encodings supported, the
\* recorder's mimeType populated at construction or not.  The default
\* encoding only matters when no listed encoding is supported.
AllDevices ==
  { [supported |-> S, default |-> "audio/wav", reports |-> r] :
      S \in SUBSET MimeTypeSet, r \in BOOLEAN }

InitNeg ==
  /\ device \in AllDevices
  /\ apiKey = TRUE
  /\ entries = <<>>
  /\ inputText = <<>>
  /\ isRecordingMode = FALSE
  /\ isProcessingAudio = FALSE
  /\ isLoading = TRUE
  /\ sess = [s \in Sessions |-> NewSession(s)]
  /\ hac = [s \in Sessions |-> NoHac]
  /\ store = <<>>
  /\ load = [pc |-> "pending", data |-> <<>>]
  /\ textPending = {}
  /\ deletePending = {}
  /\ nextId = 0
  /\ now = 0
  /\ view = FirstView

\* One recording session on any device.
SpecNeg == InitNeg /\ [][NextSolo]_vars

\* C15: the MediaRecorder of a session is constructed with the first
\* encoding of the preference list that the device supports, and with no
\* encoding (so that the device's default is used) exactly when the device
\* supports none of them.
C15_Theorem ==
  \A s \in Sessions :
    sess[s].recRef =>
      /\ sess[s].options = "" <=> device.supported \cap MimeTypeSet = {}
      /\ sess[s].options # "" =>
           \E i \in 1..Len(mimeTypes) :
             /\ mimeTypes[i] = sess[s].options
             /\ mimeTypes[i] \in device.supported
             /\ \A j \in 1..(i - 1) : mimeTypes[j] \notin device.supported
      /\ sess[s].options = "" => ActualEncoding(device) = device.default

\* a device without the first two encodings records with the third, and a
\* session is recording
C15_Witness ==
  \E s \in Sessions :
    /\ device.supported = {"audio/mp4", "audio/ogg"}
    /\ sess[s].recState = "recording"
    /\ sess[s].options = "audio/mp4"


\* C17: the Stop button of a session that is not Recording (Requesting,
\* Stopping, or ended) changes nothing: stopRecording leaves the instance
\* as it is, so it stops no recorder and queues no stop event; and the
\* recorder's stop() is called at most once, from Recording.
C17_Theorem ==
  \A s \in Sessions :
    /\ sess[s].stopCalls <= 1
    /\ sess[s].mounted /\ Phase(sess[s]) # "Recording" =>
         stopRecording(sess[s]) = sess[s]

\* the Stop button can be pressed on a session that is already Stopping
C17_Witness ==
  \E s \in Sessions :
    /\ sess[s].mounted
    /\ ~isProcessingAudio
    /\ Phase(sess[s]) = "Stopping"
    /\ sess[s].stopCalls = 1
    /\ sess[s].emitted = <<>>


\* C18: once the handleAudioComplete invocation of a session has failed,
\* isProcessingAudio is false and the recorder is closed: isRecordingMode is
\* false and the session's stopped AudioRecorder is no longer mounted.
C18_Claim ==
  \A s \in Sessions :
    hac[s].pc = "failed" /\ hac[s].cause \in {"transcription", "storage"} =>
      /\ ~isProcessingAudio
      /\ ~isRecordingMode
      /\ ~sess[s].mounted


\* no persistence call and no handleAudioComplete invocation is pending
Quiescent ==
  /\ load.pc \in {"done", "failed"}
  /\ textPending = {}
  /\ deletePending = {}
  /\ \A s \in Sessions : hac[s].pc \notin {"encoding", "request", "saving"}

\* C19: once loadEntries has succeeded and nothing is pending, the
\* in-memory list holds exactly the ids that are persisted.
C19_Claim ==
  Quiescent /\ load.pc = "done" => Ids(entries) = Ids(store)

\* --------------------------------------- specifications of the grouping
\* the number of entries of a sample journal
MaxEntries == 3

\* timestamps of sample entries: this morning, noon and midnight of
\* yesterday, noon of Tuesday 2026-11-03 and of Monday 2026-11-02, and
\* noon of Tuesday 2020-11-03
SampleTimes ==
  {ClockStart - 1, ClockStart - 2, ClockStart - 3, ClockStart - 6,
   ClockStart - 8, ClockStart - 2 * 2194}

RECURSIVE Descending(_)
Descending(S) ==
  IF S = {} THEN <<>>
  ELSE LET m == CHOOSE x \in S : \A y \in S : y <= x
       IN  <<m>> \o Descending(S \ {m})

\* a journal whose entries carry the timestamps S
JournalOf(S) ==
  LET ts == Descending(S)
  IN  [j \in 1..Len(ts) |-> TextEntry(j, <<"a">>, ts[j])]

SampleStores ==
  {JournalOf(S) : S \in {T \in SUBSET SampleTimes : Cardinality(T) <= MaxEntries}}

InitGroup ==
  /\ device = [supported |-> MimeTypeSet, default |-> "audio/webm;codecs=opus",
               reports |-> TRUE]
  /\ apiKey = TRUE
  /\ entries = <<>>
  /\ inputText = <<>>
  /\ isRecordingMode = FALSE
  /\ isProcessingAudio = FALSE
  /\ isLoading = TRUE
  /\ sess = [s \in Sessions |-> NewSession(s)]
  /\ hac = [s \in Sessions |-> NoHac]
  /\ store \in SampleStores
  /\ load = [pc |-> "pending", data |-> <<>>]
  /\ textPending = {}
  /\ deletePending = {}
  /\ nextId = 0
  /\ now = ClockStart
  /\ view = FirstView

NextGroup ==
  \/ LoadRead
  \/ LoadDone
  \/ HandleDelete
  \/ DeleteDone
  \/ ClockTick
  \/ Render

\* The journal is loaded, entries are deleted, the day ends; every
\* render sees a steady clock.
SpecGroup == InitGroup /\ [][NextGroup]_vars

NextClock ==
  \/ NextGroup
  \/ RenderAcrossTick

\* As SpecGroup, and the clock may advance during a render.
SpecClock == InitGroup /\ [][NextClock]_vars

\* ------------------------------------------------- claims on the grouping
\* the local calendar day of a timestamp, counted from 1970-01-01
DayOf(ts) == ts \div 2

\* the key under which the last render shows entry e
ShownKey(e) ==
  LET g == CHOOSE g \in 1..Len(view.grouped) : InList(e, view.grouped[g].entries)
  IN  view.grouped[g].key

RECURSIVE Concat(_)
Concat(ss) == IF ss = <<>> THEN <<>> ELSE Head(ss) \o Concat(Tail(ss))

\* the entries of the groups as displayed: orderedKeys.map(k => groupedEntries[k])
Displayed == [i \in 1..Len(view.keys) |-> GroupOf(view.grouped, view.keys[i])]

SortedDescending(es) ==
  \A i, j \in 1..Len(es) : i < j => es[i].timestamp >= es[j].timestamp

\* C13: an entry of the current calendar day is keyed "Today", one of the
\* previous day "Yesterday", and two entries have the same key exactly
\* when their timestamps fall on the same calendar date.
C13_Claim ==
  \A i, j \in 1..Len(view.input) :
    LET e == view.input[i]
        f == view.input[j]
    IN  /\ ShownKey(e) = TodayKey <=> DayOf(e.timestamp) = DayOf(view.at)
        /\ ShownKey(e) = YesterdayKey <=> DayOf(e.timestamp) = DayOf(view.at) - 1
        /\ ShownKey(e) = ShownKey(f) <=> DayOf(e.timestamp) = DayOf(f.timestamp)

\* C12: for entries sorted by timestamp descending, the displayed groups
\* have pairwise distinct keys and their entries, concatenated in display
\* order, are the input sequence.
C12_Claim ==
  SortedDescending(view.input) =>
    /\ \A p, q \in 1..Len(view.keys) : p # q => view.keys[p] # view.keys[q]
    /\ Concat(Displayed) = view.input

\* the position in the input of the first entry shown under a key
FirstOccurrence(key) ==
  CHOOSE i \in 1..Len(view.input) :
    /\ ShownKey(view.input[i]) = key
    /\ \A j \in 1..(i - 1) : ShownKey(view.input[j]) # key

\* C16: the displayed groups are in the order in which their keys first
\* occur in the entry sequence, each key once, and for entries sorted by
\* timestamp descending every group holds later dates than the groups
\* displayed after it.
C16_Claim ==
  /\ \A p, q \in 1..Len(view.keys) :
       p < q => /\ view.keys[p] # view.keys[q]
                /\ FirstOccurrence(view.keys[p]) < FirstOccurrence(view.keys[q])
  /\ SortedDescending(view.input) =>
       \A p, q \in 1..Len(view.keys) :
         p < q => \A i \in 1..Len(Displayed[p]), j \in 1..Len(Displayed[q]) :
                    DayOf(Displayed[p][i].timestamp) > DayOf(Displayed[q][j].timestamp)

\* the first half of C16 alone: first-occurrence order, each key once
C16_OrderOnly ==
  \A p, q \in 1..Len(view.keys) :
    p < q => /\ view.keys[p] # view.keys[q]
             /\ FirstOccurrence(view.keys[p]) < FirstOccurrence(view.keys[q])

KeySet(ks) == {ks[i] : i \in 1..Len(ks)}

GroupKeys(grouped) == {grouped[g].key : g \in 1..Len(grouped)}

\* C20: in every render the keys of orderedKeys are the keys of
\* groupedEntries, also when the clock crosses midnight between the
\* readings of the render.
C20_Claim == KeySet(view.keys) = GroupKeys(view.grouped)

\* ------------------------------------------- claims on the compose form
\* C21: whatever was submitted, completed and deleted, and in whatever
\* order the saves completed, the in-memory entry list is sorted by
\* timestamp descending.
C21_Claim == SortedDescending(entries)

\* the saveEntry of the text now in the input is still pending
SavePending == \E e \in textPending : e.content = Trim(inputText)

\* C22: while the saveEntry of the text in the input is pending, no step
\* starts the save of another entry.
C22_Claim == [][SavePending => textPending' \subseteq textPending]_vars

====
